---- MODULE Spec2Model ----
(***************************************************************************)
(* A model of ncd (src/src/main.rs): the query resolver of a "smart        *)
(* directory jump" tool.  Strings are sequences of one-character strings,  *)
(* so that trimming, splitting, lowercasing and the glob-to-regex          *)
(* translation are computed as the code computes them.  A path is a        *)
(* record [root, comps]: the components are spelled as the program         *)
(* spelled them, and canonicalize() maps a spelling to the names stored    *)
(* on disk.                                                                 *)
(***************************************************************************)
EXTENDS Integers, Sequences, FiniteSets, TLC

VARIABLES
    windows,    \* the build: TRUE = cfg(windows) (drive letters, "\" separator, case-insensitive disk)
    scanRev,    \* the order in which read_dir yields entries (unspecified by the OS)
    cwd,        \* env::current_dir()
    cdpath,     \* env::split_paths(CDPATH): a sequence of paths
    opts,       \* SearchOptions
    query,      \* the command-line query (run), or the fragment (search_cdpath)
    pc,         \* position of the invocation
    matches,    \* resolve_path_segments: the current generation of candidates
    segments,   \* resolve_path_segments: the fragments still to consume
    stdout,     \* what run printed on standard output
    stderr,     \* what run printed on standard error
    exitCode,   \* the process's exit status (-1 while running)
    result,     \* the value returned: by evaluate_jump, or by the function called alone
    rootList,   \* search_cdpath called alone: the roots get_search_roots gave it
    arg         \* a function called alone: its second argument

vars == <<windows, scanRev, cwd, cdpath, opts, query, pc, matches, segments,
          stdout, stderr, exitCode, result, rootList, arg>>

-----------------------------------------------------------------------------
(* Characters and strings                                                  *)

DOS_SEPARATOR == IF windows THEN "\\" ELSE "/"

UNIX_SEPARATOR == "/"

\* char::MAX on the non-Windows build: a character no query contains
DRIVE_SEPARATOR == IF windows THEN ":" ELSE "MAX"

PATH_SEPARATORS == {DOS_SEPARATOR, UNIX_SEPARATOR}

\* char::to_lowercase on the letters the model uses
LowerChar(c) ==
    CASE c = "A" -> "a"
      [] c = "B" -> "b"
      [] c = "C" -> "c"
      [] c = "D" -> "d"
      [] c = "T" -> "t"
      [] OTHER -> c

\* char::is_alphabetic
IsAlphabetic(c) == c \in {"a", "b", "c", "d", "t", "x", "A", "B", "C", "D", "T"}

\* str::to_lowercase
ToLower(s) == [i \in 1..Len(s) |-> LowerChar(s[i])]

\* str::contains(char)
Contains(s, c) == \E i \in 1..Len(s) : s[i] = c

\* str::starts_with(&str)
StartsWith(s, p) == Len(p) <= Len(s) /\ SubSeq(s, 1, Len(p)) = p

RECURSIVE Replace(_, _, _)
\* str::replace(char, &str): every occurrence of c becomes the string r
Replace(s, c, r) ==
    IF s = <<>> THEN <<>>
    ELSE (IF Head(s) = c THEN r ELSE <<Head(s)>>) \o Replace(Tail(s), c, r)

RECURSIVE TrimStart(_)
TrimStart(s) == IF s # <<>> /\ Head(s) = " " THEN TrimStart(Tail(s)) ELSE s

RECURSIVE TrimEndOf(_, _)
\* str::trim_end_matches(set of characters)
TrimEndOf(s, cs) ==
    IF s # <<>> /\ s[Len(s)] \in cs THEN TrimEndOf(SubSeq(s, 1, Len(s) - 1), cs) ELSE s

\* str::trim (the model's only whitespace is the space)
Trim(s) == TrimEndOf(TrimStart(s), {" "})

RECURSIVE SplitOn(_, _, _)
\* str::split(set of characters): cur is the piece being read
SplitOn(s, cs, cur) ==
    IF s = <<>> THEN <<cur>>
    ELSE IF Head(s) \in cs THEN <<cur>> \o SplitOn(Tail(s), cs, <<>>)
    ELSE SplitOn(Tail(s), cs, Append(cur, Head(s)))

Range(seq) == {seq[i] : i \in 1..Len(seq)}

-----------------------------------------------------------------------------
(* trim_to_elipses, is_ellipsis                                            *)

trim_to_elipses(path) ==
    LET is_nav == \A i \in 1..Len(path) : path[i] = "." \/ path[i] = " "
    IN  IF is_nav THEN SelectSeq(path, LAMBDA c : c = ".") ELSE path

\* an is_ellipsis that takes three dots or more
is_ellipsisLong(head) ==
    LET dir == trim_to_elipses(head)
    IN  Len(dir) > 2 /\ \A i \in 1..Len(dir) : dir[i] = "."

\* an is_ellipsis that takes a single dot too
is_ellipsisAny(head) ==
    LET dir == trim_to_elipses(head)
    IN  Len(dir) > 0 /\ \A i \in 1..Len(dir) : dir[i] = "."

is_ellipsis(head) ==
    LET dir == trim_to_elipses(head)
    IN  Len(dir) > 1 /\ \A i \in 1..Len(dir) : dir[i] = "."

-----------------------------------------------------------------------------
(* The disk.  Directory names as stored; a path on disk is the sequence of *)
(* stored names from the root of the current drive.                        *)

n_a   == <<"a">>
n_b   == <<"b">>
n_t   == <<"t">>
n_Ab  == <<"A", "b">>
n_adb == <<"a", ".", "b">>
n_ahb == <<"a", "-", "b">>
n_f   == <<"f">>

\*  /a  /a/t  /a/Ab  /a/a.b  /a/a-b  /a/f (file)
\*  /b  /b/t  /b/Ab (file)
\*  /Ab
\*  /t  /t/t
DiskDirs ==
    { <<>>,
      <<n_a>>, <<n_a, n_t>>, <<n_a, n_Ab>>, <<n_a, n_adb>>, <<n_a, n_ahb>>,
      <<n_b>>, <<n_b, n_t>>,
      <<n_Ab>>,
      <<n_t>>, <<n_t, n_t>> }

DiskFiles == { <<n_a, n_f>>, <<n_b, n_Ab>> }

DiskEntries == DiskDirs \cup DiskFiles

\* the order in which read_dir yields the names of one directory
ScanOrder ==
    LET asc == <<n_a, n_adb, n_ahb, n_Ab, n_b, n_f, n_t>>
    IN  IF scanRev THEN [i \in 1..Len(asc) |-> asc[Len(asc) + 1 - i]] ELSE asc

\* the file system's name lookup: case-insensitive on Windows (NTFS)
SameEntryName(stored, typed) ==
    IF windows THEN ToLower(stored) = ToLower(typed) ELSE stored = typed

NoPath == [root |-> "none", comps |-> <<>>]

NoEntry == << <<"?">> >>

RECURSIVE LookupFrom(_, _)
\* the stored spelling of base/rest, or NoEntry when there is no such entry
LookupFrom(base, rest) ==
    IF rest = <<>> THEN base
    ELSE LET hit == { e \in DiskEntries :
                        /\ Len(e) = Len(base) + 1
                        /\ SubSeq(e, 1, Len(base)) = base
                        /\ SameEntryName(e[Len(e)], Head(rest)) }
         IN  IF hit = {} THEN NoEntry
             ELSE LookupFrom(CHOOSE e \in hit : TRUE, Tail(rest))

\* A path: root "R" is the root of the current drive ("/" or "C:\"), "X" the
\* root of a drive that does not exist ("D:\"), "REL" a relative path (with
\* no components: the empty path), "DRV" the bare drive "C:" (the current
\* directory on that drive)
RootPath == [root |-> "R", comps |-> <<>>]

\* Path::join with a single normal component
Join(p, name) == [p EXCEPT !.comps = Append(@, name)]

\* Path::canonicalize: Ok(the stored spelling) or Err (NoPath)
canonicalize(p) ==
    LET full == IF p.root \in {"REL", "DRV"} THEN cwd.comps \o p.comps ELSE p.comps
        got  == LookupFrom(<<>>, full)
    IN  IF /\ p.root \in {"R", "REL", "DRV"}
           /\ ~(p.root = "REL" /\ p.comps = <<>>)
           /\ got \in DiskEntries
        THEN [root |-> "R", comps |-> got]
        ELSE NoPath

\* Result::unwrap_or_else(|_| path.clone())
UnwrapOr(r, p) == IF r = NoPath THEN p ELSE r

\* path.canonicalize().unwrap_or_else(|_| path.clone())
CanonOrSelf(p) == UnwrapOr(canonicalize(p), p)

\* the resolved entry is a directory
IsDirEntry(c) == c # NoPath /\ c.comps \in DiskDirs

\* Path::is_dir
is_dir(p) == IsDirEntry(canonicalize(p))

\* Path::file_name as a string ("" when the path has none)
file_name(p) == IF p.comps = <<>> THEN <<>> ELSE p.comps[Len(p.comps)]

\* Path::is_absolute
is_absolute(p) == p.root \in {"R", "X"}

\* PathBuf::pop: <<popped?, the path afterwards>>
pop(p) ==
    IF p.comps = <<>> THEN <<FALSE, p>>
    ELSE <<TRUE, [p EXCEPT !.comps = SubSeq(@, 1, Len(@) - 1)]>>

\* std::fs::read_dir(root) followed by entry.path(): root joined with each
\* stored name, files included, in the order the OS yields them
JoinEach(root, names) == [i \in 1..Len(names) |-> Join(root, names[i])]

EntryNames(c) ==
    SelectSeq(ScanOrder, LAMBDA n : c # NoPath /\ Append(c.comps, n) \in DiskEntries)

read_dir(root) == JoinEach(root, EntryNames(canonicalize(root)))

-----------------------------------------------------------------------------
(* SearchEngine: the pattern engine                                        *)

RECURSIVE RegexParse(_)
\* regex syntax over the model's alphabet: "\c" is the literal c, ".*" any
\* run of characters, "." any one character, every other character itself
RegexParse(s) ==
    IF s = <<>> THEN <<>>
    ELSE IF Head(s) = "\\" /\ Len(s) >= 2
         THEN <<[k |-> "lit", c |-> s[2]]>> \o RegexParse(SubSeq(s, 3, Len(s)))
    ELSE IF Head(s) = "." /\ Len(s) >= 2 /\ s[2] = "*"
         THEN <<[k |-> "star", c |-> ""]>> \o RegexParse(SubSeq(s, 3, Len(s)))
    ELSE IF Head(s) = "."
         THEN <<[k |-> "any", c |-> ""]>> \o RegexParse(Tail(s))
    ELSE <<[k |-> "lit", c |-> Head(s)]>> \o RegexParse(Tail(s))

\* RegexBuilder::new(pattern).case_insensitive(ci).build(): "^" and "$" anchor
\* the two ends of the expression
RegexBuild(pattern, ci) ==
    LET bol  == pattern # <<>> /\ Head(pattern) = "^"
        s1   == IF bol THEN Tail(pattern) ELSE pattern
        eol  == s1 # <<>> /\ s1[Len(s1)] = "$"
        body == IF eol THEN SubSeq(s1, 1, Len(s1) - 1) ELSE s1
    IN  [bol |-> bol, eol |-> eol, ci |-> ci, toks |-> RegexParse(body)]

NoRegex == [bol |-> FALSE, eol |-> FALSE, ci |-> FALSE, toks |-> <<[k |-> "none", c |-> ""]>>]

RECURSIVE MatchTokens(_, _, _)
\* the tokens match the whole of s
MatchTokens(toks, s, ci) ==
    IF toks = <<>> THEN s = <<>>
    ELSE LET t == Head(toks)
         IN  CASE t.k = "lit" ->
                    /\ s # <<>>
                    /\ IF ci THEN LowerChar(Head(s)) = LowerChar(t.c) ELSE Head(s) = t.c
                    /\ MatchTokens(Tail(toks), Tail(s), ci)
               [] t.k = "any" ->
                    /\ s # <<>>
                    /\ MatchTokens(Tail(toks), Tail(s), ci)
               [] t.k = "star" ->
                    \E n \in 0..Len(s) : MatchTokens(Tail(toks), SubSeq(s, n + 1, Len(s)), ci)
               [] OTHER -> FALSE

\* Regex::is_match: the expression matches somewhere in the text
is_match(re, text) ==
    \E i \in 1..(Len(text) + 1) : \E j \in i..(Len(text) + 1) :
        /\ re.bol => i = 1
        /\ re.eol => j = Len(text) + 1
        /\ MatchTokens(re.toks, SubSeq(text, i, j - 1), re.ci)

\* SearchEngine::new without the replacement of "." by "\."
SearchEngineNewUnescaped(name, exact) ==
    LET is_wildcard == Contains(name, "*") \/ Contains(name, "?")
        p2 == Replace(name, "?", <<".">>)
        p3 == Replace(p2, "*", <<".", "*">>)
    IN  [query       |-> name,
         query_lower |-> ToLower(name),
         is_wildcard |-> is_wildcard,
         exact       |-> exact,
         re          |-> IF is_wildcard
                         THEN RegexBuild(<<"^">> \o p3 \o <<"$">>, ~exact)
                         ELSE NoRegex]

\* SearchEngine::new without the anchors "^" and "$"
SearchEngineNewUnanchored(name, exact) ==
    LET is_wildcard == Contains(name, "*") \/ Contains(name, "?")
        p1 == Replace(name, ".", <<"\\", ".">>)
        p2 == Replace(p1, "?", <<".">>)
        p3 == Replace(p2, "*", <<".", "*">>)
    IN  [query       |-> name,
         query_lower |-> ToLower(name),
         is_wildcard |-> is_wildcard,
         exact       |-> exact,
         re          |-> IF is_wildcard THEN RegexBuild(p3, ~exact) ELSE NoRegex]

\* SearchEngine::new: the three replacements in the code's order, then "^...$"
SearchEngineNew(name, exact) ==
    LET is_wildcard == Contains(name, "*") \/ Contains(name, "?")
        p1 == Replace(name, ".", <<"\\", ".">>)
        p2 == Replace(p1, "?", <<".">>)
        p3 == Replace(p2, "*", <<".", "*">>)
    IN  [query       |-> name,
         query_lower |-> ToLower(name),
         is_wildcard |-> is_wildcard,
         exact       |-> exact,
         re          |-> IF is_wildcard
                         THEN RegexBuild(<<"^">> \o p3 \o <<"$">>, ~exact)
                         ELSE NoRegex]

\* get_disk_casing: the name as stored, "" when the path does not resolve
get_disk_casing(path) == file_name(canonicalize(path))

\* check_direct, given path = root.join(query)
CheckDirectPath(engine, path) ==
    IF ~is_dir(path) THEN NoPath
    ELSE IF engine.exact /\ get_disk_casing(path) # engine.query THEN NoPath
    ELSE path

\* SearchEngine::check_direct: Some(path) or None (NoPath)
check_direct(engine, root) == CheckDirectPath(engine, Join(root, engine.query))

\* SearchEngine::matches_path
matches_path(engine, path) ==
    LET name == file_name(path)
    IN  IF engine.re # NoRegex THEN is_match(engine.re, name)
        ELSE IF engine.exact THEN name = engine.query
        ELSE ToLower(name) = engine.query_lower

\* the is_match decision of scan_dir for one entry name
ScanMatches(engine, name, o) ==
    IF engine.re # NoRegex THEN is_match(engine.re, name)
    ELSE IF engine.exact THEN name = engine.query
    ELSE IF o.dir_match = "Fuzzy"
         THEN ToLower(name) = engine.query_lower \/ StartsWith(ToLower(name), engine.query_lower)
         ELSE ToLower(name) = engine.query_lower

\* SearchEngine::scan_dir
scan_dir(engine, root, o) ==
    SelectSeq(read_dir(root),
              LAMBDA p : is_dir(p) /\ ScanMatches(engine, file_name(p), o))

-----------------------------------------------------------------------------
(* handle_ellipsis                                                         *)

RECURSIVE PopLoop(_, _)
\* for _ in 0..n { if !current.pop() { break; } }
PopLoop(current, n) ==
    IF n <= 0 THEN current
    ELSE IF current.comps = <<>> THEN current
    ELSE PopLoop(pop(current)[2], n - 1)

\* a loop that pops once per dot
EllipsisHopsPerDot(segment) == Len(segment)

\* the number of pops the loop of handle_ellipsis asks for
EllipsisHops(segment) == Len(segment) - 1

handle_ellipsis(segment, base) ==
    LET current == IF is_absolute(base) THEN base
                   ELSE UnwrapOr(canonicalize(base),
                                 [root |-> "R", comps |-> cwd.comps \o base.comps])
    IN  <<PopLoop(current, EllipsisHops(segment))>>

-----------------------------------------------------------------------------
(* get_search_roots                                                        *)

RECURSIVE CdpathRootsSeeded(_, _)
\* the loop over CDPATH with the current directory already in seen
CdpathRootsSeeded(entries, seen) ==
    IF entries = <<>> THEN <<>>
    ELSE IF CanonOrSelf(Head(entries)) \notin (seen \cup {CanonOrSelf(cwd)})
         THEN <<Head(entries)>>
              \o CdpathRootsSeeded(Tail(entries), seen \cup {CanonOrSelf(Head(entries))})
         ELSE CdpathRootsSeeded(Tail(entries), seen)

RECURSIVE CdpathRoots(_, _)
\* the loop over CDPATH: an entry is kept when its canonical form is new
CdpathRoots(entries, seen) ==
    IF entries = <<>> THEN <<>>
    ELSE LET p  == Head(entries)
             p2 == CanonOrSelf(p)
         IN  IF p2 \notin seen
             THEN <<p>> \o CdpathRoots(Tail(entries), seen \cup {p2})
             ELSE CdpathRoots(Tail(entries), seen)

\* a mock that is put in front of the current directory
MockRootsWithCwd(mock) == <<mock, cwd>>

\* what a present mock contributes: the one root
MockRoots(mock) == <<mock>>

get_search_roots(mock) ==
    IF mock # NoPath THEN MockRoots(mock)
    ELSE <<cwd>> \o CdpathRoots(cdpath, {})

-----------------------------------------------------------------------------
(* search_cdpath                                                           *)

\* a push that does not consult the set of canonical paths
CollectAll(acc, ps) ==
    [dirs |-> acc.dirs \cup { CanonOrSelf(ps[k]) : k \in 1..Len(ps) },
     matches |-> acc.matches \o ps]

RECURSIVE Collect(_, _)
\* for p in ps { if dirs.insert(canon(p)) { matches.push(p) } }
Collect(acc, ps) ==
    IF ps = <<>> THEN acc
    ELSE LET d == CanonOrSelf(Head(ps))
         IN  IF d \in acc.dirs THEN Collect(acc, Tail(ps))
             ELSE Collect([dirs |-> acc.dirs \cup {d},
                           matches |-> Append(acc.matches, Head(ps))], Tail(ps))

\* what search_cdpath does: return a list, or report_ambiguity (which exits)
Found(paths) == [kind |-> "ok", paths |-> paths, root |-> NoPath]

\* a search that settles an ambiguity by taking the first match
AmbiguousTakesFirst(root, paths) == [kind |-> "ok", paths |-> <<paths[1]>>, root |-> NoPath]

Ambiguous(root, paths) == [kind |-> "ambiguous", paths |-> paths, root |-> root]

\* Phase A applies
PhaseAGuard(engine, name) == ~engine.is_wildcard /\ name # <<>>

\* a Phase A that never returns at once
PhaseAFastNever(o) == FALSE

\* Phase A returns at once
PhaseAFast(o) == ~o.exact

\* Phase B applies (i is the root's index, from 0)
PhaseBGuard(engine, i) == engine.is_wildcard /\ i = 0

\* a Phase C that applies in every mode
PhaseCGuardAnyMode(o, i) == i > 0 \/ o.mock_path # NoPath

\* Phase C applies
PhaseCGuard(o, i) == (i > 0 \/ o.mock_path # NoPath) /\ o.mode # "Origin"

\* a Phase D that applies in every mode
PhaseDGuardAnyMode(o, i, found) == i = 0 \/ found = <<>>

\* Phase D applies
PhaseDGuard(o, i, found) == o.mode # "Target" /\ (i = 0 \/ found = <<>>)

\* aggregation for --list only
AggregatesListOnly(o, engine) == o.list

\* aggregation whatever the flag and the fragment
AggregatesAlways(o, engine) == TRUE

\* the matches of one root are aggregated rather than arbitrated
Aggregates(o, engine) == o.list \/ engine.is_wildcard

\* Phase A: the direct child, Some(path) or None (NoPath)
PhaseA(engine, name, root) ==
    IF PhaseAGuard(engine, name) THEN check_direct(engine, root) ELSE NoPath

\* Phase A's push, when the fast path was not taken
AfterA(direct, dirs) ==
    IF direct # NoPath THEN Collect([dirs |-> dirs, matches |-> <<>>], <<direct>>)
    ELSE [dirs |-> dirs, matches |-> <<>>]

AfterB(acc, engine, o, root, i) ==
    IF PhaseBGuard(engine, i) THEN Collect(acc, scan_dir(engine, root, o)) ELSE acc

AfterC(acc, engine, o, root, i) ==
    IF PhaseCGuard(o, i) /\ matches_path(engine, root) THEN Collect(acc, <<root>>) ELSE acc

AfterD(acc, engine, o, root, i) ==
    IF PhaseDGuard(o, i, acc.matches) THEN Collect(acc, scan_dir(engine, root, o)) ELSE acc

\* the four phases at one root (the fast path aside)
Phases(direct, dirs, engine, o, root, i) ==
    AfterD(AfterC(AfterB(AfterA(direct, dirs), engine, o, root, i), engine, o, root, i),
           engine, o, root, i)

RECURSIVE SearchRoots(_, _, _, _, _, _, _)

\* the end of the loop body for one root, given Phase A's hit and the matches
\* of the phases
Arbitrate(name, o, engine, roots, idx, all_matches, direct, acc) ==
    IF direct # NoPath /\ PhaseAFast(o) THEN Found(<<direct>>)
    ELSE IF acc.matches = <<>>
    THEN SearchRoots(name, o, engine, roots, idx + 1, all_matches, acc.dirs)
    ELSE IF Aggregates(o, engine)
    THEN SearchRoots(name, o, engine, roots, idx + 1, all_matches \o acc.matches, acc.dirs)
    ELSE IF Len(acc.matches) = 1 THEN Found(acc.matches)
    ELSE Ambiguous(roots[idx], acc.matches)

\* the loop body for one root, given Phase A's hit
AtRoot(name, o, engine, roots, idx, all_matches, dirs, direct) ==
    Arbitrate(name, o, engine, roots, idx, all_matches, direct,
              Phases(direct, dirs, engine, o, roots[idx], idx - 1))

\* the loop over the roots, from the root at position idx (1-based)
SearchRoots(name, o, engine, roots, idx, all_matches, dirs) ==
    IF idx > Len(roots) THEN Found(all_matches)
    ELSE IF ~is_dir(roots[idx])
    THEN SearchRoots(name, o, engine, roots, idx + 1, all_matches, dirs)
    ELSE AtRoot(name, o, engine, roots, idx, all_matches, dirs,
                PhaseA(engine, name, roots[idx]))

search_cdpath(name, o) ==
    SearchRoots(name, o, SearchEngineNew(name, o.exact),
                get_search_roots(o.mock_path), 1, <<>>, {})

-----------------------------------------------------------------------------
(* Query classification: get_drive_components, split_query, get_drive_root *)

\* the letter of the drive the current directory is on (Windows)
CurrentDrive == "C"

\* PathBuf::from(string), for the strings the resolver builds: a drive or a
\* leading separator, then components (empty ones are not components)
PathFromString(s) ==
    LET parts == SplitOn(s, PATH_SEPARATORS, <<>>)
        names == SelectSeq(parts, LAMBDA x : x # <<>>)
        drive == windows /\ Len(parts[1]) = 2 /\ parts[1][2] = ":"
    IN  IF drive
        THEN IF Len(parts) = 1
             THEN [root |-> IF parts[1][1] = CurrentDrive THEN "DRV" ELSE "X", comps |-> <<>>]
             ELSE [root |-> IF parts[1][1] = CurrentDrive THEN "R" ELSE "X",
                   comps |-> Tail(names)]
        ELSE IF s # <<>> /\ Head(s) \in PATH_SEPARATORS
        THEN [root |-> "R", comps |-> names]
        ELSE [root |-> "REL", comps |-> names]

\* <<bare, anchored, parts>>
get_drive_components(path) ==
    LET parts == SplitOn(path, PATH_SEPARATORS, <<>>)
        lead  == path # <<>> /\ Head(path) \in PATH_SEPARATORS
        drive == /\ Len(parts[1]) = 2
                 /\ parts[1][2] = DRIVE_SEPARATOR
                 /\ IsAlphabetic(parts[1][1])
        anchored == lead \/ drive
        bare  == anchored /\ (Len(parts) = 1 \/ parts[2] = <<>>)
    IN  <<bare, anchored, parts>>

\* <<head, tails>>
split_query(components, starts_with_sep, is_anchored) ==
    LET parts == SelectSeq(components, LAMBDA x : x # <<>>)
    IN  IF parts = <<>> THEN << <<>>, <<>> >>
        ELSE IF starts_with_sep THEN << <<>>, parts >>
        ELSE IF is_anchored THEN << Head(parts), Tail(parts) >>
        ELSE << <<>>, parts >>

\* get_drive_root: the first component of the path, displayed
get_drive_root(path) == IF windows THEN <<CurrentDrive, ":">> ELSE <<"/">>

\* evaluate_jump up to its call of resolve_path_segments:
\* [bare, results] for the early returns, [start_roots, segments] otherwise
EvaluateStart(raw_query) ==
    LET query_check == Trim(raw_query)
        starts_with_sep == query_check # <<>> /\ Head(query_check) \in PATH_SEPARATORS
        gdc  == get_drive_components(query_check)
        sq   == split_query(gdc[3], starts_with_sep, gdc[2])
        head == sq[1]
        tails == sq[2]
        sep  == DOS_SEPARATOR
        root == IF starts_with_sep
                THEN PathFromString(TrimEndOf(get_drive_root(cwd), PATH_SEPARATORS) \o <<sep>>)
                ELSE PathFromString(head \o <<sep>>)
    IN  IF query_check = <<>>
        THEN [done |-> TRUE, results |-> <<>>, start_roots |-> <<>>, segments |-> <<>>]
        ELSE IF gdc[1]
        THEN [done |-> TRUE, results |-> <<PathFromString(query_check)>>,
              start_roots |-> <<>>, segments |-> <<>>]
        ELSE IF gdc[2] \/ starts_with_sep
        THEN [done |-> FALSE, results |-> <<>>, start_roots |-> <<root>>, segments |-> tails]
        ELSE [done |-> FALSE, results |-> <<>>, start_roots |-> <<cwd>>,
              segments |-> (IF head # <<>> THEN <<head>> ELSE <<>>) \o tails]

-----------------------------------------------------------------------------
(* resolve_path_segments: one generation                                   *)

\* a retain that drops the blank fragments only
RetainDots(segs) == SelectSeq(segs, LAMBDA s : Trim(s) # <<>>)

\* segments.retain(|s| !s.trim().is_empty() && s.trim() != ".")
Retain(segs) == SelectSeq(segs, LAMBDA s : Trim(s) # <<>> /\ Trim(s) # <<".">>)

\* the options a name fragment is searched with for one candidate
SegmentOpts(path, o) == IF cwd = path THEN o ELSE [o EXCEPT !.mock_path = path]

RECURSIVE WalkGeneration(_, _, _, _)

\* the end of the loop body for one candidate, given what its search found
Extend(paths, segment, o, next_matches, found) ==
    IF found.kind = "ambiguous" THEN found
    ELSE WalkGeneration(Tail(paths), segment, o, next_matches \o found.paths)

\* path.parent(), as the list to push
ParentOf(path) == IF path.comps = <<>> THEN <<>> ELSE <<pop(path)[2]>>

\* the loop body for one candidate, given nav = trim_to_elipses(segment)
Candidate(paths, segment, o, next_matches, nav) ==
    IF is_ellipsis(nav)
    THEN WalkGeneration(Tail(paths), segment, o,
                        next_matches \o handle_ellipsis(nav, Head(paths)))
    ELSE IF nav = <<".", ".">>
    THEN WalkGeneration(Tail(paths), segment, o, next_matches \o ParentOf(Head(paths)))
    ELSE Extend(paths, segment, o, next_matches,
                search_cdpath(segment, SegmentOpts(Head(paths), o)))

\* the loop over the candidates: the next generation, or the ambiguity that
\* ended the process
WalkGeneration(paths, segment, o, next_matches) ==
    IF paths = <<>> THEN Found(next_matches)
    ELSE Candidate(paths, segment, o, next_matches, trim_to_elipses(segment))

-----------------------------------------------------------------------------
(* run: the invocation                                                     *)

\* run's normalisation of the argument: trim, drop trailing separators, then
\* trim_to_elipses
RunQuery(s) == trim_to_elipses(TrimEndOf(Trim(s), PATH_SEPARATORS))

SpecialTokens == { <<".">>, <<".", ".">>, <<"~">>, <<"-">> }

\* the arms of run's match that print and return
IsSpecial(s) ==
    \/ RunQuery(s) = <<>> /\ Trim(s) # <<>>
    \/ RunQuery(s) \in SpecialTokens

HomePath == [root |-> "HOME", comps |-> <<>>]

OldPwdPath == [root |-> "OLDPWD", comps |-> <<>>]

ErrLine(kind, text, root, paths) ==
    [kind |-> kind, text |-> text, root |-> root, paths |-> paths]

\* the special arms: "" prints the separator, "." the current directory,
\* ".." its parent (or itself), "~" and "-" an environment variable, which
\* may be unset
RunSpecial ==
    /\ pc = "start"
    /\ IsSpecial(query)
    /\ LET q == RunQuery(query)
       IN  \E is_set \in BOOLEAN :
            LET printed ==
                    CASE q = <<>>          -> <<RootPath>>
                      [] q = <<".">>       -> <<cwd>>
                      [] q = <<".", ".">>  -> <<pop(cwd)[2]>>
                      [] q = <<"~">>       -> IF is_set THEN <<HomePath>> ELSE <<>>
                      [] OTHER             -> IF is_set THEN <<OldPwdPath>> ELSE <<>>
            IN  /\ (q \in {<<"~">>, <<"-">>}) \/ is_set
                /\ stdout' = printed
                /\ stderr' = IF printed = <<>>
                             THEN <<ErrLine("error", q, NoPath, <<>>)>> ELSE <<>>
                /\ exitCode' = IF printed = <<>> THEN 1 ELSE 0
    /\ pc' = "exited"
    /\ UNCHANGED <<windows, scanRev, cwd, cdpath, opts, query, matches, segments, result, rootList, arg>>

\* evaluate_jump is entered; a bare anchor and the empty query return at once
RunEvaluate ==
    /\ pc = "start"
    /\ ~IsSpecial(query)
    /\ LET e == EvaluateStart(RunQuery(query))
       IN  IF e.done
           THEN /\ result' = e.results
                /\ pc' = "resolved"
                /\ UNCHANGED <<matches, segments>>
           ELSE /\ matches' = e.start_roots
                /\ segments' = e.segments
                /\ pc' = "walk"
                /\ UNCHANGED result
    /\ UNCHANGED <<windows, scanRev, cwd, cdpath, opts, query, stdout, stderr, exitCode, rootList, arg>>

\* resolve_path_segments is terminal: no fragment or no candidate is left
WalkReturn ==
    /\ pc = "walk"
    /\ Retain(segments) = <<>> \/ matches = <<>>
    /\ result' = matches
    /\ pc' = "resolved"
    /\ UNCHANGED <<windows, scanRev, cwd, cdpath, opts, query, matches, segments,
                   stdout, stderr, exitCode, rootList, arg>>

\* the generation the first remaining fragment produces
NextGeneration == WalkGeneration(matches, Head(Retain(segments)), opts, <<>>)

\* a generation that consumes no fragment
WalkStepKeeps ==
    /\ pc = "walk"
    /\ Retain(segments) # <<>> /\ matches # <<>>
    /\ NextGeneration.kind = "ok"
    /\ NextGeneration.paths # <<>>
    /\ matches' = NextGeneration.paths
    /\ opts' = [opts EXCEPT !.mock_path = NextGeneration.paths[1]]
    /\ UNCHANGED <<windows, scanRev, cwd, cdpath, query, pc, stdout, stderr, exitCode,
                   result, rootList, arg, segments>>

\* one generation: the first fragment is consumed, and the recursion goes on
\* with mock_path set to the first match
WalkStep ==
    /\ pc = "walk"
    /\ Retain(segments) # <<>> /\ matches # <<>>
    /\ NextGeneration.kind = "ok"
    /\ NextGeneration.paths # <<>>
    /\ matches' = NextGeneration.paths
    /\ segments' = Tail(Retain(segments))
    /\ opts' = [opts EXCEPT !.mock_path = NextGeneration.paths[1]]
    /\ UNCHANGED <<windows, scanRev, cwd, cdpath, query, pc, stdout, stderr, exitCode,
                   result, rootList, arg>>

\* a generation that finds nothing and returns the candidates it had
WalkEmptyKeeps ==
    /\ pc = "walk"
    /\ Retain(segments) # <<>> /\ matches # <<>>
    /\ NextGeneration.kind = "ok"
    /\ NextGeneration.paths = <<>>
    /\ result' = matches
    /\ pc' = "resolved"
    /\ UNCHANGED <<windows, scanRev, cwd, cdpath, opts, query, matches, segments,
                   stdout, stderr, exitCode, rootList, arg>>

\* one generation that finds nothing: return Vec::new()
WalkEmpty ==
    /\ pc = "walk"
    /\ Retain(segments) # <<>> /\ matches # <<>>
    /\ NextGeneration.kind = "ok"
    /\ NextGeneration.paths = <<>>
    /\ result' = <<>>
    /\ pc' = "resolved"
    /\ UNCHANGED <<windows, scanRev, cwd, cdpath, opts, query, matches, segments,
                   stdout, stderr, exitCode, rootList, arg>>

\* search_cdpath called report_ambiguity: the process exits with 1
WalkAmbiguous ==
    /\ pc = "walk"
    /\ Retain(segments) # <<>> /\ matches # <<>>
    /\ NextGeneration.kind = "ambiguous"
    /\ stderr' = <<ErrLine("ambiguous", <<>>, NextGeneration.root, NextGeneration.paths)>>
    /\ exitCode' = 1
    /\ pc' = "exited"
    /\ UNCHANGED <<windows, scanRev, cwd, cdpath, opts, query, matches, segments,
                   stdout, result, rootList, arg>>

\* a run without the ambiguity test
IsAmbiguousNever(results, o) == FALSE

\* run's test after evaluate_jump: results.len() > 1 && !opts.list
IsAmbiguous(results, o) == Len(results) > 1 /\ ~o.list

\* run, after evaluate_jump: more than one result without --list
ReportAmbiguity ==
    /\ pc = "resolved"
    /\ IsAmbiguous(result, opts)
    /\ stderr' = <<ErrLine("ambiguous", RunQuery(query), NoPath, result)>>
    /\ exitCode' = 1
    /\ pc' = "exited"
    /\ UNCHANGED <<windows, scanRev, cwd, cdpath, opts, query, matches, segments,
                   stdout, result, rootList, arg>>

\* a run that takes the empty list for a success and prints nothing
ReportNoMatchSilent ==
    /\ pc = "resolved"
    /\ ~IsAmbiguous(result, opts)
    /\ result = <<>>
    /\ exitCode' = 0
    /\ pc' = "exited"
    /\ UNCHANGED <<windows, scanRev, cwd, cdpath, opts, query, matches, segments,
                   stdout, stderr, result, rootList, arg>>

\* run, after evaluate_jump: no result
ReportNoMatch ==
    /\ pc = "resolved"
    /\ ~IsAmbiguous(result, opts)
    /\ result = <<>>
    /\ stderr' = <<ErrLine("nomatch", RunQuery(query), NoPath, <<>>)>>
    /\ exitCode' = 1
    /\ pc' = "exited"
    /\ UNCHANGED <<windows, scanRev, cwd, cdpath, opts, query, matches, segments,
                   stdout, result, rootList, arg>>

\* run, after evaluate_jump: the paths are printed
PrintResults ==
    /\ pc = "resolved"
    /\ ~IsAmbiguous(result, opts)
    /\ result # <<>>
    /\ stdout' = result
    /\ exitCode' = 0
    /\ pc' = "exited"
    /\ UNCHANGED <<windows, scanRev, cwd, cdpath, opts, query, matches, segments,
                   stderr, result, rootList, arg>>

-----------------------------------------------------------------------------
(* The inputs                                                              *)

Modes == {"Origin", "Target", "Hybrid"}

DirMatches == {"AsIs", "Fuzzy"}

AbsPath(comps) == [root |-> "R", comps |-> comps]

\* SearchOptions as run builds them: mock_path is None
RunOptions ==
    [mode : Modes, exact : BOOLEAN, list : BOOLEAN, dir_match : DirMatches,
     mock_path : {NoPath}]

\* the current directories the invocations start in
WorkDirs == { AbsPath(<<>>), AbsPath(<<n_a>>) }

\* the values of CDPATH
CdPaths == { <<>>, <<AbsPath(<<n_b>>)>> }

\* the first fragment of a query
Fragments ==
    { n_a, n_t, <<"T">>, <<"x">>, <<"*">>, <<"a", "*">>, <<".", ".">>, <<".">> }

\* the fragments after the first
LaterFragments == { n_t, <<"*">>, <<".", ".">> }

\* what a query starts with: nothing, or a separator
Anchors == { <<>>, <<"/">> }

\* the longest query, in fragments
MaxSegments == 2

RECURSIVE JoinFragments(_)
\* the fragments with "/" between them
JoinFragments(fs) ==
    IF Len(fs) = 0 THEN <<>>
    ELSE IF Len(fs) = 1 THEN fs[1]
    ELSE fs[1] \o <<"/">> \o JoinFragments(Tail(fs))

FragmentLists ==
    { <<f>> \o r : f \in Fragments,
                   r \in UNION { [1..n -> LaterFragments] : n \in 0..(MaxSegments - 1) } }

Queries == { a \o JoinFragments(fs) : a \in Anchors, fs \in FragmentLists }

\* evaluate_jump has not returned (yet)
NotReturned == <<NoPath>>

Quiet ==
    /\ matches = <<>>
    /\ segments = <<>>
    /\ stdout = <<>>
    /\ stderr = <<>>
    /\ exitCode = -1
    /\ result = NotReturned
    /\ rootList = <<>>
    /\ arg = <<>>

Init ==
    /\ windows \in BOOLEAN
    /\ scanRev \in BOOLEAN
    /\ cwd \in WorkDirs
    /\ cdpath \in CdPaths
    /\ opts \in RunOptions
    /\ query \in Queries
    /\ pc = "start"
    /\ Quiet

Next ==
    \/ RunSpecial
    \/ RunEvaluate
    \/ WalkReturn
    \/ WalkStep
    \/ WalkEmpty
    \/ WalkAmbiguous
    \/ ReportAmbiguity
    \/ ReportNoMatch
    \/ PrintResults

Spec == Init /\ [][Next]_vars

-----------------------------------------------------------------------------
(* search_cdpath called alone                                              *)

\* the current directories of the searches
SearchDirs == { AbsPath(<<>>), AbsPath(<<n_a>>), AbsPath(<<n_b>>) }

\* the values of CDPATH: empty, one entry, a repeated entry, the current
\* directory among the entries, an entry spelled in another case, an entry
\* that does not exist, the root directory after another entry
SearchCdPaths ==
    { <<>>,
      <<AbsPath(<<n_b>>)>>,
      <<AbsPath(<<n_b>>), AbsPath(<<n_t>>), AbsPath(<<n_b>>)>>,
      <<AbsPath(<<n_t>>), AbsPath(<<n_a>>), AbsPath(<<n_t>>)>>,
      <<AbsPath(<< <<"B">> >>), AbsPath(<<n_b>>)>>,
      <<AbsPath(<< <<"x">> >>), AbsPath(<<n_a>>)>>,
      <<AbsPath(<<n_a>>), RootPath>> }

\* the scope overrides
MockDirs == { AbsPath(<<n_a>>), AbsPath(<<n_t>>), AbsPath(<< <<"T">> >>) }

\* the CDPATH of the searches that have a scope override
MockCdPath == <<AbsPath(<<n_b>>), AbsPath(<<n_a>>)>>

\* the fragments searched for
SearchNames ==
    { n_a, n_b, n_t, <<"T">>, n_Ab, <<"a", "b">>, <<"x">>,
      <<"*">>, <<"a", "*">>, <<"t", "*">>, <<"T", "*">>, <<"a", "?", "b">> }

SearchOptions ==
    [mode : Modes, exact : BOOLEAN, list : BOOLEAN, dir_match : DirMatches,
     mock_path : {NoPath} \cup MockDirs]

InitSearch ==
    /\ windows \in BOOLEAN
    /\ scanRev = FALSE
    /\ cwd \in SearchDirs
    /\ opts \in SearchOptions
    /\ cdpath \in (IF opts.mock_path = NoPath THEN SearchCdPaths ELSE {MockCdPath})
    /\ query \in SearchNames
    /\ pc = "call"
    /\ Quiet

\* search_cdpath(query, opts)
SearchCall ==
    /\ pc = "call"
    /\ rootList' = get_search_roots(opts.mock_path)
    /\ result' = search_cdpath(query, opts)
    /\ pc' = "returned"
    /\ UNCHANGED <<windows, scanRev, cwd, cdpath, opts, query, matches, segments,
                   stdout, stderr, exitCode, arg>>

NextSearch == SearchCall

SpecSearch == InitSearch /\ [][NextSearch]_vars

-----------------------------------------------------------------------------
(* The pattern engine called alone                                         *)

\* the longest fragment and the longest directory name, in characters
MaxPatternLen == 3

MaxNameLen == 3

PatternChars == {"a", "A", ".", "*", "?"}

NameChars == {"a", ".", "-"}

Patterns == UNION { [1..n -> PatternChars] : n \in 1..MaxPatternLen }

DirNames == UNION { [1..n -> NameChars] : n \in 1..MaxNameLen }

InitEngine ==
    /\ windows = FALSE
    /\ scanRev = FALSE
    /\ cwd = RootPath
    /\ cdpath = <<>>
    /\ opts \in [mode : {"Origin"}, exact : BOOLEAN, list : {FALSE},
                 dir_match : {"AsIs"}, mock_path : {NoPath}]
    /\ query \in Patterns
    /\ pc = "engine"
    /\ matches = <<>>
    /\ segments = <<>>
    /\ stdout = <<>>
    /\ stderr = <<>>
    /\ exitCode = -1
    /\ result = NotReturned
    /\ rootList = <<>>
    /\ arg \in DirNames

\* SearchEngine::new(query, exact), then matches_path on a path whose last
\* component is arg, and scan_dir's decision for an entry named arg
MatchCall ==
    /\ pc = "engine"
    /\ result' = [path  |-> matches_path(SearchEngineNew(query, opts.exact), Join(RootPath, arg)),
                  asis  |-> ScanMatches(SearchEngineNew(query, opts.exact), arg, opts),
                  fuzzy |-> ScanMatches(SearchEngineNew(query, opts.exact), arg,
                                        [opts EXCEPT !.dir_match = "Fuzzy"])]
    /\ pc' = "matched"
    /\ UNCHANGED <<windows, scanRev, cwd, cdpath, opts, query, matches, segments,
                   stdout, stderr, exitCode, rootList, arg>>

NextEngine == MatchCall

SpecEngine == InitEngine /\ [][NextEngine]_vars

-----------------------------------------------------------------------------
(* handle_ellipsis called alone                                            *)

\* the longest fragment of dots and spaces, and the deepest base path
MaxDots == 4

MaxDepth == 3

DotStrings == UNION { [1..n -> {".", " "}] : n \in 1..MaxDots }

BasePaths ==
    [root : {"R", "X", "REL"},
     comps : UNION { [1..n -> {n_a, n_t}] : n \in 0..MaxDepth }]

InitEllipsis ==
    /\ windows \in BOOLEAN
    /\ scanRev = FALSE
    /\ cwd \in WorkDirs
    /\ cdpath = <<>>
    /\ opts \in [mode : {"Origin"}, exact : {FALSE}, list : {FALSE},
                 dir_match : {"AsIs"}, mock_path : {NoPath}]
    /\ query \in DotStrings
    /\ pc = "ellipsis"
    /\ matches = <<>>
    /\ segments = <<>>
    /\ stdout = <<>>
    /\ stderr = <<>>
    /\ exitCode = -1
    /\ result = NotReturned
    /\ rootList = <<>>
    /\ arg \in BasePaths

\* the ellipsis arm of resolve_path_segments for one candidate:
\* handle_ellipsis(&nav, path) when is_ellipsis(&nav)
EllipsisCall ==
    /\ pc = "ellipsis"
    /\ is_ellipsis(trim_to_elipses(query))
    /\ result' = handle_ellipsis(trim_to_elipses(query), arg)
    /\ pc' = "hopped"
    /\ UNCHANGED <<windows, scanRev, cwd, cdpath, opts, query, matches, segments,
                   stdout, stderr, exitCode, rootList, arg>>

NextEllipsis == EllipsisCall

SpecEllipsis == InitEllipsis /\ [][NextEllipsis]_vars

-----------------------------------------------------------------------------
(* Properties of run                                                       *)

\* evaluate_jump returned to run, and run has finished
Returned == pc = "exited" /\ ~IsSpecial(query) /\ result # NotReturned

\* C1: when evaluate_jump returns more than one candidate, run without --list
\* fails: exit status 1, every candidate on stderr, nothing on stdout; with
\* --list every candidate is printed and the exit status is 0
C1_AmbiguityFails ==
    (Returned /\ Len(result) > 1) =>
        IF opts.list
        THEN exitCode = 0 /\ stdout = result /\ stderr = <<>>
        ELSE /\ exitCode = 1
             /\ stdout = <<>>
             /\ Len(stderr) = 1
             /\ stderr[1].kind = "ambiguous"
             /\ stderr[1].paths = result

C1_Witness ==
    /\ Returned
    /\ Len(result) > 1
    /\ ~opts.list
    /\ exitCode = 1
    /\ stderr # <<>>

\* C2: when evaluate_jump returns no candidate, run fails as NoMatch: exit
\* status 1, one "Could not resolve" line with the query on stderr, nothing
\* on stdout
C2_NoMatchFails ==
    (Returned /\ result = <<>>) =>
        /\ exitCode = 1
        /\ stdout = <<>>
        /\ stderr = <<ErrLine("nomatch", RunQuery(query), NoPath, <<>>)>>

C2_Witness ==
    /\ Returned
    /\ result = <<>>
    /\ query = <<"x">>
    /\ stderr # <<>>
    /\ stderr[1].text = <<"x">>

-----------------------------------------------------------------------------
(* Properties of handle_ellipsis                                           *)

\* the base of a hop as an absolute path
AbsoluteBase == IF is_absolute(arg) THEN arg ELSE AbsPath(cwd.comps \o arg.comps)

\* the number of dots of the fragment
Dots == Len(trim_to_elipses(query))

\* C3: an ellipsis of N >= 2 dots on a base of depth D yields exactly one
\* path, absolute and on the base's drive: the ancestor N-1 levels up when
\* D >= N-1, the root when D < N-1
C3_EllipsisHops ==
    pc = "hopped" =>
        /\ Dots >= 2
        /\ Len(result) = 1
        /\ result[1] # NoPath
        /\ is_absolute(result[1])
        /\ result[1].root = AbsoluteBase.root
        /\ result[1].comps =
             IF Len(AbsoluteBase.comps) >= Dots - 1
             THEN SubSeq(AbsoluteBase.comps, 1, Len(AbsoluteBase.comps) - (Dots - 1))
             ELSE <<>>

C3_Witness ==
    /\ pc = "hopped"
    /\ Dots = 3
    /\ arg = AbsPath(<<n_a, n_t, n_a>>)
    /\ result = <<AbsPath(<<n_a>>)>>

\* the clamped case of C3
C3_ClampWitness ==
    /\ pc = "hopped"
    /\ Dots = 4
    /\ arg = [root |-> "REL", comps |-> <<n_t>>]
    /\ cwd = AbsPath(<<n_a>>)
    /\ result = <<RootPath>>

-----------------------------------------------------------------------------
(* Properties of search_cdpath and get_search_roots                        *)

\* the stored names of the directories directly in the directory d
ChildDirs(d) ==
    { e[Len(e)] : e \in { x \in DiskDirs : /\ Len(x) = Len(d) + 1
                                           /\ SubSeq(x, 1, Len(d)) = d } }

\* the fragment has no wildcard character
IsLiteral(name) == ~Contains(name, "*") /\ ~Contains(name, "?")

\* the fragment names a directory directly in the current directory
NamesChildOfCwd ==
    /\ IsLiteral(query)
    /\ cwd.comps \in DiskDirs
    /\ \E n \in ChildDirs(cwd.comps) : SameEntryName(n, query)

\* C4: without a scope override and with exact = false, a literal fragment
\* that names a directory directly in the current directory resolves to
\* exactly that one path, whatever the mode, the list flag, dir_match and
\* CDPATH: nothing is scanned and there is no ambiguity
C4_DirectChildFastPath ==
    (/\ pc = "returned"
     /\ opts.mock_path = NoPath
     /\ ~opts.exact
     /\ NamesChildOfCwd) =>
        result = Found(<<Join(cwd, query)>>)

\* a same-named directory exists in a CDPATH root and --list is on
C4_Witness ==
    /\ pc = "returned"
    /\ opts.mock_path = NoPath
    /\ ~opts.exact
    /\ opts.list
    /\ cwd = AbsPath(<<n_a>>)
    /\ query = n_t
    /\ cdpath = <<AbsPath(<<n_b>>), AbsPath(<<n_t>>), AbsPath(<<n_b>>)>>
    /\ result = Found(<<AbsPath(<<n_a, n_t>>)>>)

\* the path is the directory d or directly in it
InOrAt(p, d) ==
    \/ p = d
    \/ p.root = d.root /\ p.comps # <<>> /\ pop(p)[2] = d

\* C5: with a scope override the roots are exactly the override, and every
\* path the search returns is the override or directly in it
C5_MockIsolation ==
    (pc = "returned" /\ opts.mock_path # NoPath) =>
        /\ rootList = <<opts.mock_path>>
        /\ \A i \in 1..Len(result.paths) : InOrAt(result.paths[i], opts.mock_path)

\* the current directory and a CDPATH root hold the fragment, the override
\* does not
C5_Witness ==
    /\ pc = "returned"
    /\ opts.mock_path = AbsPath(<<n_t>>)
    /\ cwd = AbsPath(<<n_a>>)
    /\ query = n_Ab
    /\ rootList = <<AbsPath(<<n_t>>)>>
    /\ result = Found(<<>>)

\* the positions of CDPATH whose canonical form has not occurred before
FirstOccurrences ==
    { i \in 1..Len(cdpath) :
        \A j \in 1..(i - 1) : CanonOrSelf(cdpath[j]) # CanonOrSelf(cdpath[i]) }

\* the k-th of these positions
KthFirstOccurrence(k) ==
    CHOOSE i \in FirstOccurrences : Cardinality({ j \in FirstOccurrences : j < i }) = k - 1

\* C6: without a scope override the roots are the current directory, then
\* the entries of CDPATH in their order, each canonical form once (the first
\* occurrence); the current directory stays at position 0 and is not removed
\* from the CDPATH part
C6_RootOrder ==
    (pc = "returned" /\ opts.mock_path = NoPath) =>
        /\ Len(rootList) = 1 + Cardinality(FirstOccurrences)
        /\ rootList[1] = cwd
        /\ \A k \in 1..Cardinality(FirstOccurrences) :
                rootList[k + 1] = cdpath[KthFirstOccurrence(k)]

\* a repeated entry and the current directory among the entries
C6_Witness ==
    /\ pc = "returned"
    /\ opts.mock_path = NoPath
    /\ cwd = AbsPath(<<n_a>>)
    /\ cdpath = <<AbsPath(<<n_t>>), AbsPath(<<n_a>>), AbsPath(<<n_t>>)>>
    /\ rootList = <<AbsPath(<<n_a>>), AbsPath(<<n_t>>), AbsPath(<<n_a>>)>>

\* the canonical forms of the paths returned
ResultDirs == { CanonOrSelf(result.paths[i]) : i \in 1..Len(result.paths) }

\* the directories directly in the root r whose stored name the fragment
\* matches
MatchingChildren(r) ==
    IF ~is_dir(r) THEN {}
    ELSE { Join(canonicalize(r), n) :
             n \in { m \in ChildDirs(canonicalize(r).comps) :
                       ScanMatches(SearchEngineNew(query, opts.exact), m, opts) } }

\* what the root at position i (from 1) owes the result in the mode of the
\* search: the current directory its matching children; a later root, or the
\* override, its matching children in Origin mode, itself in Target mode when
\* it matches, and in Hybrid mode itself when it matches, its matching
\* children otherwise
OwedBy(i) ==
    IF ~is_dir(rootList[i]) THEN {}
    ELSE IF i = 1 /\ opts.mock_path = NoPath THEN MatchingChildren(rootList[i])
    ELSE IF opts.mode = "Origin" THEN MatchingChildren(rootList[i])
    ELSE IF matches_path(SearchEngineNew(query, opts.exact), rootList[i])
    THEN {canonicalize(rootList[i])}
    ELSE IF opts.mode = "Hybrid" THEN MatchingChildren(rootList[i])
    ELSE {}

\* the path is a directory the fragment matches, a root or directly in one
FromSomeRoot(p) ==
    /\ is_dir(p)
    /\ \E i \in 1..Len(rootList) :
          \/ p = rootList[i] /\ matches_path(SearchEngineNew(query, opts.exact), p)
          \/ CanonOrSelf(p) \in MatchingChildren(rootList[i])

\* C8: for a wildcard fragment search_cdpath returns a list and never reports
\* an ambiguity, with --list and without; the list is the same in both cases
\* and holds what every enumerated root owes, and nothing but matching
\* directories of the roots
C8_WildcardAggregates ==
    (pc = "returned" /\ ~IsLiteral(query)) =>
        /\ result.kind = "ok"
        /\ result = search_cdpath(query, [opts EXCEPT !.list = ~opts.list])
        /\ \A i \in 1..Len(rootList) : OwedBy(i) \subseteq ResultDirs
        /\ \A k \in 1..Len(result.paths) : FromSomeRoot(result.paths[k])

\* three roots hold a match each and --list is off
C8_Witness ==
    /\ pc = "returned"
    /\ query = <<"t", "*">>
    /\ ~opts.list
    /\ opts.mode = "Origin"
    /\ opts.mock_path = NoPath
    /\ cwd = AbsPath(<<n_a>>)
    /\ cdpath = <<AbsPath(<<n_b>>), AbsPath(<<n_t>>), AbsPath(<<n_b>>)>>
    /\ result = Found(<<AbsPath(<<n_a, n_t>>), AbsPath(<<n_b, n_t>>), AbsPath(<<n_t, n_t>>)>>)

-----------------------------------------------------------------------------
(* The matching paths of SearchEngine called alone                         *)

\* the spellings of the roots handed to matches_path
SelfRoots ==
    { AbsPath(<<n_t>>), AbsPath(<< <<"T">> >>), AbsPath(<<n_a, n_Ab>>),
      AbsPath(<<n_a, <<"a", "b">> >>), AbsPath(<<n_b>>) }

InitCasing ==
    /\ windows \in BOOLEAN
    /\ scanRev = FALSE
    /\ cwd \in SearchDirs
    /\ cdpath = <<>>
    /\ opts \in [mode : {"Origin"}, exact : BOOLEAN, list : {FALSE},
                 dir_match : DirMatches, mock_path : {NoPath}]
    /\ query \in SearchNames
    /\ pc = "engine"
    /\ matches = <<>>
    /\ segments = <<>>
    /\ stdout = <<>>
    /\ stderr = <<>>
    /\ exitCode = -1
    /\ result = NotReturned
    /\ rootList = <<>>
    /\ arg \in SelfRoots

\* engine.check_direct(&cwd), for a fragment without wildcard (Phase A)
CheckDirectCall ==
    /\ pc = "engine"
    /\ IsLiteral(query)
    /\ result' = <<check_direct(SearchEngineNew(query, opts.exact), cwd)>>
    /\ pc' = "direct"
    /\ UNCHANGED <<windows, scanRev, cwd, cdpath, opts, query, matches, segments,
                   stdout, stderr, exitCode, rootList, arg>>

\* engine.matches_path(&root), for a root that is a directory (Phase C)
MatchesPathCall ==
    /\ pc = "engine"
    /\ is_dir(arg)
    /\ result' = <<matches_path(SearchEngineNew(query, opts.exact), arg)>>
    /\ pc' = "self"
    /\ UNCHANGED <<windows, scanRev, cwd, cdpath, opts, query, matches, segments,
                   stdout, stderr, exitCode, rootList, arg>>

\* engine.scan_dir(&cwd, opts) (Phases B and D)
ScanDirCall ==
    /\ pc = "engine"
    /\ result' = scan_dir(SearchEngineNew(query, opts.exact), cwd, opts)
    /\ pc' = "scan"
    /\ UNCHANGED <<windows, scanRev, cwd, cdpath, opts, query, matches, segments,
                   stdout, stderr, exitCode, rootList, arg>>

NextCasing ==
    \/ CheckDirectCall
    \/ MatchesPathCall
    \/ ScanDirCall

SpecCasing == InitCasing /\ [][NextCasing]_vars

\* the directories directly in the current directory whose stored name is
\* the fragment, the case of the letters aside
SameNameChildren == { n \in ChildDirs(cwd.comps) : ToLower(n) = ToLower(query) }

\* the stored names of the paths scan_dir returned
ScannedNames == { file_name(result[i]) : i \in 1..Len(result) }

\* C9: case sensitivity follows the exact flag in the direct-child check, the
\* root self-match and the contents scan: with exact = false a literal
\* fragment matches a directory whose stored name differs from it in case
\* only; with exact = true it matches a directory only when it is the stored
\* name, character for character
C9_CaseFollowsExact ==
    /\ (pc = "direct" /\ ~opts.exact /\ SameNameChildren # {}) => result[1] # NoPath
    /\ (pc = "direct" /\ opts.exact) => (result[1] # NoPath <=> query \in ChildDirs(cwd.comps))
    /\ (pc = "self" /\ IsLiteral(query) /\ ~opts.exact) =>
            (result[1] <=> ToLower(get_disk_casing(arg)) = ToLower(query))
    /\ (pc = "self" /\ IsLiteral(query) /\ opts.exact) =>
            (result[1] <=> get_disk_casing(arg) = query)
    /\ (pc = "scan" /\ IsLiteral(query) /\ ~opts.exact /\ opts.dir_match = "AsIs") =>
            ScannedNames = SameNameChildren
    /\ (pc = "scan" /\ IsLiteral(query) /\ opts.exact) =>
            ScannedNames = ChildDirs(cwd.comps) \cap {query}

-----------------------------------------------------------------------------
(* Properties of the pattern engine                                        *)

\* the fragment has a dot at position i, and nothing before it (after it)
\* can take up more or less than one character of the name
DotFromStart(i) ==
    /\ query[i] = "."
    /\ \A j \in 1..(i - 1) : query[j] # "*"

DotFromEnd(i) ==
    /\ query[i] = "."
    /\ \A j \in (i + 1)..Len(query) : query[j] # "*"

\* the name has a dot at position i counted from the start (from the end)
NameDotFromStart(i) == Len(arg) >= i /\ arg[i] = "."

NameDotFromEnd(i) ==
    /\ Len(arg) >= Len(query) - i + 1
    /\ arg[Len(arg) - (Len(query) - i)] = "."

\* the name has at least as many dots as the fragment
EnoughDots ==
    Cardinality({ i \in 1..Len(arg) : arg[i] = "." })
        >= Cardinality({ i \in 1..Len(query) : query[i] = "." })

\* the fragment without its stars
Starless == SelectSeq(query, LAMBDA c : c # "*")

\* the name is the fragment with every star taken for nothing and every "?"
\* for one character
FitsStarless ==
    /\ Len(arg) = Len(Starless)
    /\ \A i \in 1..Len(arg) :
          \/ Starless[i] = "?"
          \/ Starless[i] = arg[i]
          \/ ~opts.exact /\ LowerChar(Starless[i]) = LowerChar(arg[i])

\* one of the three decisions (matches_path, scan_dir with AsIs, scan_dir
\* with Fuzzy) took the name
SomeMatch == result.path \/ result.asis \/ result.fuzzy

C10_MatchWitness ==
    /\ pc = "matched"
    /\ query = <<"*", ".", "a">>
    /\ arg = <<"a", ".", "a">>
    /\ result.path

-----------------------------------------------------------------------------
(* Properties of the segment walker                                        *)

\* what the fragment yields under the candidate alone: the hop for an
\* ellipsis, the search locked to the candidate for a name
UnderCandidate(path, segment, o) ==
    IF is_ellipsis(trim_to_elipses(segment))
    THEN handle_ellipsis(trim_to_elipses(segment), path)
    ELSE search_cdpath(segment, [o EXCEPT !.mock_path = path]).paths

RECURSIVE IndependentGeneration(_, _, _)
\* the candidates' yields, one after the other
IndependentGeneration(paths, segment, o) ==
    IF paths = <<>> THEN <<>>
    ELSE UnderCandidate(Head(paths), segment, o)
         \o IndependentGeneration(Tail(paths), segment, o)

\* C7: once a fragment has matched several directories, the next fragment is
\* resolved under each of them independently: the next generation is the
\* candidates' own yields, one after the other, a candidate without a yield
\* adding nothing
C7_FanOut ==
    [][(WalkStep /\ Len(matches) > 1) =>
            matches' = IndependentGeneration(matches, Head(Retain(segments)), opts)]_vars

\* the final list of C7's failing run
C7_Lost ==
    /\ pc = "resolved"
    /\ query = <<"/", "*", "/", "t">>
    /\ cwd = AbsPath(<<n_a>>)
    /\ AbsPath(<<n_a, n_t>>) \notin Range(result)

-----------------------------------------------------------------------------
(* Properties of the modes of search_cdpath                                *)

\* the path is directly in the directory d, as d is spelled
ChildOf(p, d) == p.root = d.root /\ p.comps # <<>> /\ pop(p)[2] = d

\* the path is directly in one of the enumerated roots
ChildOfSomeRoot(p) == \E i \in 1..Len(rootList) : ChildOf(p, rootList[i])

\* C11: in Origin mode Phase C contributes nothing: every path search_cdpath
\* returns (or reports as ambiguous) is directly in one of the enumerated
\* roots, and a root is never returned for its own name
C11_OriginChildrenOnly ==
    (pc = "returned" /\ opts.mode = "Origin") =>
        \A k \in 1..Len(result.paths) : ChildOfSomeRoot(result.paths[k])

\* the fragment names a CDPATH entry that no root holds a child for
C11_Witness ==
    /\ pc = "returned"
    /\ opts.mode = "Origin"
    /\ opts.mock_path = NoPath
    /\ cwd = AbsPath(<<n_a>>)
    /\ cdpath = <<AbsPath(<<n_b>>), AbsPath(<<n_t>>), AbsPath(<<n_b>>)>>
    /\ query = n_b
    /\ result = Found(<<>>)

\* the path is one of the enumerated roots, as spelled
IsSomeRoot(p) == \E i \in 1..Len(rootList) : p = rootList[i]

\* the path is the direct child Phase A checks at one of the roots
IsPhaseAChild(p) ==
    /\ IsLiteral(query)
    /\ \E i \in 1..Len(rootList) : p = Join(rootList[i], query)

\* the path is a wildcard match of Phase B, directly in the first root
IsPhaseBChild(p) == ~IsLiteral(query) /\ rootList # <<>> /\ ChildOf(p, rootList[1])

\* the roots Phase C applies to whose own name the fragment matches
BookmarkRoots ==
    { i \in 1..Len(rootList) :
        /\ i > 1 \/ opts.mock_path # NoPath
        /\ is_dir(rootList[i])
        /\ matches_path(SearchEngineNew(query, opts.exact), rootList[i]) }

\* no root can end the search through Phase A's early return
NoFastPath ==
    \/ opts.exact
    \/ ~IsLiteral(query)
    \/ \A i \in 1..Len(rootList) : ~is_dir(Join(rootList[i], query))

\* C12: in Target mode Phase D is never performed: a returned path is a root
\* itself, the direct child of Phase A, or a wildcard match of Phase B in
\* the first root, never a child found by a contents scan; and a root after
\* the first (or the override) whose own name matches is returned as itself:
\* it is in the list under --list when no early return ends the search, and
\* without --list the search does not come back empty
C12_TargetBookmarks ==
    (pc = "returned" /\ opts.mode = "Target") =>
        /\ \A k \in 1..Len(result.paths) :
                \/ IsSomeRoot(result.paths[k])
                \/ IsPhaseAChild(result.paths[k])
                \/ IsPhaseBChild(result.paths[k])
        /\ (opts.list /\ NoFastPath) =>
                \A i \in BookmarkRoots : CanonOrSelf(rootList[i]) \in ResultDirs
        /\ BookmarkRoots # {} => (result.kind = "ambiguous" \/ result.paths # <<>>)

\* the CDPATH entry /b is found by its own name "b"
C12_Witness ==
    /\ pc = "returned"
    /\ opts.mode = "Target"
    /\ opts.mock_path = NoPath
    /\ ~opts.list
    /\ opts.dir_match = "Fuzzy"
    /\ cwd = AbsPath(<<n_a>>)
    /\ cdpath = <<AbsPath(<<n_b>>), AbsPath(<<n_t>>), AbsPath(<<n_b>>)>>
    /\ query = n_b
    /\ result = Found(<<AbsPath(<<n_b>>)>>)

\* the path is directly in the root at position i and in no other root
ChildOfOnly(p, i) ==
    /\ ChildOf(p, rootList[i])
    /\ \A j \in 1..Len(rootList) : j # i => ~ChildOf(p, rootList[j])

\* C13: in Hybrid mode the contents of a root are a fallback: a root after
\* the first (or the override) whose own name matches the fragment
\* contributes itself only, never one of its children
C13_HybridFallback ==
    (pc = "returned" /\ opts.mode = "Hybrid") =>
        \A i \in BookmarkRoots :
            \A k \in 1..Len(result.paths) : ~ChildOfOnly(result.paths[k], i)

-----------------------------------------------------------------------------
(* evaluate_jump's classification called alone                             *)

\* the longest query, in characters
MaxQueryLen == 4

QueryChars == {"/", "\\", "C", ":", "t"}

QueryStrings == UNION { [1..n -> QueryChars] : n \in 0..MaxQueryLen }

InitJump ==
    /\ windows \in BOOLEAN
    /\ scanRev = FALSE
    /\ cwd \in WorkDirs
    /\ cdpath = <<>>
    /\ opts \in [mode : {"Origin"}, exact : {FALSE}, list : {FALSE},
                 dir_match : {"AsIs"}, mock_path : {NoPath}]
    /\ query \in QueryStrings
    /\ pc = "jump"
    /\ Quiet

\* evaluate_jump(query, opts) up to its return of a bare anchor or its call
\* of resolve_path_segments
JumpCall ==
    /\ pc = "jump"
    /\ result' = EvaluateStart(query)
    /\ pc' = "classified"
    /\ UNCHANGED <<windows, scanRev, cwd, cdpath, opts, query, matches, segments,
                   stdout, stderr, exitCode, rootList, arg>>

NextJump == JumpCall

SpecJump == InitJump /\ [][NextJump]_vars

\* the non-empty components of the query
QueryComponents ==
    SelectSeq(SplitOn(query, PATH_SEPARATORS, <<>>), LAMBDA x : x # <<>>)

\* the query starts with a separator
LeadingSeparator == query # <<>> /\ Head(query) \in PATH_SEPARATORS

\* the query starts with a drive specifier: a letter and the drive separator,
\* alone or followed by a separator
LeadingDrive ==
    /\ Len(query) >= 2
    /\ IsAlphabetic(query[1])
    /\ query[2] = DRIVE_SEPARATOR
    /\ Len(query) >= 3 => query[3] \in PATH_SEPARATORS

\* the query has a non-empty component after its anchor marker
FurtherComponent ==
    \/ LeadingSeparator /\ Len(QueryComponents) >= 1
    \/ ~LeadingSeparator /\ LeadingDrive /\ Len(QueryComponents) >= 2

\* C14: a query is returned at once as a bare anchor only when it is the
\* anchor marker and nothing else; an anchored query with a further
\* non-empty component is not bare and goes to the segment walker with
\* that component among its fragments
C14_BareAnchor ==
    (pc = "classified" /\ query # <<>>) =>
        /\ result.done => (LeadingSeparator \/ LeadingDrive) /\ ~FurtherComponent
        /\ FurtherComponent => ~result.done /\ result.segments # <<>>

-----------------------------------------------------------------------------
(* Properties of the start of an anchored query                            *)

\* C15: the first fragment of an anchored query is searched under the
\* computed root only: every candidate of the first generation is directly
\* in that root (or the root itself), whatever the current directory and
\* CDPATH
C15_AnchoredFromRoot ==
    [][(/\ WalkStep
        /\ LeadingSeparator
        /\ opts.mock_path = NoPath
        /\ matches = <<RootPath>>) =>
            \A k \in 1..Len(matches') : InOrAt(matches'[k], RootPath)]_vars

-----------------------------------------------------------------------------
(* Properties of the contents scan                                         *)

\* the children of the current directory whose whole name is the fragment:
\* as stored when exact, the case of the letters aside otherwise
EqualNameChildren ==
    { n \in ChildDirs(cwd.comps) :
        IF opts.exact THEN n = query ELSE ToLower(n) = ToLower(query) }

\* the children of the current directory whose name starts with the
\* fragment, the case of the letters aside
PrefixChildren ==
    { n \in ChildDirs(cwd.comps) : StartsWith(ToLower(n), ToLower(query)) }

\* C16: for a fragment without wildcard the contents scan returns, with
\* AsIs, the children whose whole name is the fragment (as stored when
\* exact, case-insensitively otherwise) and, with Fuzzy, these and every
\* child whose name starts with the fragment case-insensitively
C16_ScanByDirMatch ==
    (pc = "scan" /\ IsLiteral(query)) =>
        ScannedNames = IF opts.dir_match = "Fuzzy"
                       THEN EqualNameChildren \cup PrefixChildren
                       ELSE EqualNameChildren

-----------------------------------------------------------------------------
(* Properties of the walker's scope                                        *)

\* the fragment is a name or a wildcard: not an ellipsis
IsNameFragment(segment) == ~is_ellipsis(trim_to_elipses(segment))

RECURSIVE LockedGeneration(_, _, _)
\* what the candidates yield when each is searched with the scope override
\* set to that very candidate
LockedGeneration(paths, segment, o) ==
    IF paths = <<>> THEN <<>>
    ELSE search_cdpath(segment, [o EXCEPT !.mock_path = Head(paths)]).paths
         \o LockedGeneration(Tail(paths), segment, o)

\* C17: after the first generation, a name or wildcard fragment is searched
\* for each candidate with the scope override set to that very candidate:
\* the next generation is what the candidates yield under themselves, the
\* candidate that equals the current directory and the candidates after the
\* first included
C17_LockedToCandidate ==
    [][(/\ WalkStep
        /\ opts.mock_path # NoPath
        /\ IsNameFragment(Head(Retain(segments)))) =>
            matches' = LockedGeneration(matches, Head(Retain(segments)), opts)]_vars

-----------------------------------------------------------------------------
(* Properties of the arbitration of search_cdpath                          *)

\* what the phases produce at the root at position i when no root before it
\* has produced anything: nothing for a root that is not a directory, the
\* direct child alone when Phase A returns at once
YieldWith(i, direct) ==
    IF direct # NoPath /\ ~opts.exact THEN <<direct>>
    ELSE Phases(direct, {}, SearchEngineNew(query, opts.exact), opts, rootList[i], i - 1).matches

YieldAt(i) ==
    IF ~is_dir(rootList[i]) THEN <<>>
    ELSE YieldWith(i, PhaseA(SearchEngineNew(query, opts.exact), query, rootList[i]))

\* the positions of the roots whose phases produce something
YieldingRoots == { i \in 1..Len(rootList) : YieldAt(i) # <<>> }

\* the first of them
FirstYielding == CHOOSE i \in YieldingRoots : \A j \in YieldingRoots : i <= j

\* the first root whose phases produce something produces exactly one match
FirstYieldIsSingle == YieldingRoots # {} /\ Len(YieldAt(FirstYielding)) = 1

\* C18 as stated: without --list the first root whose phases produce exactly
\* one match ends the search, and the result is exactly that match, for
\* every fragment
C18_FirstSingleEnds ==
    (pc = "returned" /\ ~opts.list /\ FirstYieldIsSingle) =>
        result = Found(YieldAt(FirstYielding))

\* C18: without --list and for a fragment without wildcard, the roots are
\* taken in their order and the first root whose phases produce exactly one
\* match ends the search: the result is exactly that match and no later
\* root adds to it; when no root produces anything the result is empty
C18_FirstSingleEndsLiteral ==
    (pc = "returned" /\ ~opts.list /\ IsLiteral(query)) =>
        /\ FirstYieldIsSingle => result = Found(YieldAt(FirstYielding))
        /\ YieldingRoots = {} => result = Found(<<>>)

\* the current directory / and the CDPATH root /b each hold t: the current
\* directory ends the search
C18_Witness ==
    /\ pc = "returned"
    /\ ~opts.list
    /\ opts.exact
    /\ opts.mode = "Origin"
    /\ opts.mock_path = NoPath
    /\ cwd = AbsPath(<<>>)
    /\ query = n_t
    /\ cdpath = <<AbsPath(<<n_b>>), AbsPath(<<n_t>>), AbsPath(<<n_b>>)>>
    /\ FirstYielding = 1
    /\ result = Found(<<AbsPath(<<n_t>>)>>)

\* C19: without --list and for a fragment without wildcard, when the first
\* root whose phases produce something produces more than one match, the
\* search is a fatal ambiguity that reports that root with all its matches:
\* no match is returned and no later root is taken; and search_cdpath
\* reports an ambiguity in no other case
C19_AmbiguityIsFatal ==
    pc = "returned" =>
        /\ (/\ ~opts.list
            /\ IsLiteral(query)
            /\ YieldingRoots # {}
            /\ Len(YieldAt(FirstYielding)) > 1) =>
                /\ result.kind = "ambiguous"
                /\ result.root = rootList[FirstYielding]
                /\ result.paths = YieldAt(FirstYielding)
        /\ result.kind = "ambiguous" =>
                /\ ~opts.list
                /\ IsLiteral(query)
                /\ Len(result.paths) > 1

\* three Fuzzy prefix matches of "a" in the current directory /a, and a
\* CDPATH root that is never taken
C19_Witness ==
    /\ pc = "returned"
    /\ ~opts.list
    /\ ~opts.exact
    /\ opts.dir_match = "Fuzzy"
    /\ opts.mode = "Origin"
    /\ opts.mock_path = NoPath
    /\ cwd = AbsPath(<<n_a>>)
    /\ cdpath = <<AbsPath(<< <<"x">> >>), AbsPath(<<n_a>>)>>
    /\ query = n_a
    /\ result.kind = "ambiguous"
    /\ result.root = cwd
    /\ Len(result.paths) = 3

-----------------------------------------------------------------------------
(* Properties of the wildcard pattern                                      *)

RECURSIVE GlobMatch(_, _, _)
\* the shell pattern matches the whole name: "?" takes exactly one
\* character, "*" any number of them, every other character itself (the
\* case of the letters aside when ci)
GlobMatch(pat, name, ci) ==
    IF pat = <<>> THEN name = <<>>
    ELSE IF Head(pat) = "*"
         THEN \E n \in 0..Len(name) : GlobMatch(Tail(pat), SubSeq(name, n + 1, Len(name)), ci)
    ELSE IF name = <<>> THEN FALSE
    ELSE /\ \/ Head(pat) = "?"
            \/ Head(pat) = Head(name)
            \/ ci /\ LowerChar(Head(pat)) = LowerChar(Head(name))
         /\ GlobMatch(Tail(pat), Tail(name), ci)

-----------------------------------------------------------------------------
(* resolve_path_segments called alone                                      *)

RECURSIVE resolve_path_segments(_, _, _)

\* the end of resolve_path_segments, given the generation g its first
\* fragment produced and the fragments left: the ambiguity that ended the
\* process, Vec::new(), or the recursion with mock_path set to the first
\* match
WalkOn(g, rest, o) ==
    IF g.kind = "ambiguous" THEN g
    ELSE IF g.paths = <<>> THEN Found(<<>>)
    ELSE resolve_path_segments(g.paths, rest, [o EXCEPT !.mock_path = g.paths[1]])

\* resolve_path_segments on the retained fragments
WalkRetained(ms, segs, o) ==
    IF segs = <<>> \/ ms = <<>> THEN Found(ms)
    ELSE WalkOn(WalkGeneration(ms, Head(segs), o, <<>>), Tail(segs), o)

resolve_path_segments(ms, segs, o) == WalkRetained(ms, Retain(segs), o)

\* the longest fragment list handed to the walker
MaxWalkLen == 3

\* the fragments of the lists: names, a wildcard, "..", and the fragments
\* "." and blank
WalkFragments == { n_t, <<"*">>, <<".", ".">>, <<".">>, <<" ">> }

WalkLists == UNION { [1..n -> WalkFragments] : n \in 0..MaxWalkLen }

\* the options evaluate_jump hands over
WalkOptions ==
    [mode : Modes, exact : {FALSE}, list : BOOLEAN, dir_match : DirMatches,
     mock_path : {NoPath}]

InitWalker ==
    /\ windows \in BOOLEAN
    /\ scanRev = FALSE
    /\ cwd \in WorkDirs
    /\ cdpath = <<AbsPath(<<n_b>>)>>
    /\ opts \in WalkOptions
    /\ query = <<>>
    /\ pc = "walker"
    /\ matches \in { <<cwd>>, <<RootPath>> }
    /\ segments \in WalkLists
    /\ stdout = <<>>
    /\ stderr = <<>>
    /\ exitCode = -1
    /\ result = NotReturned
    /\ rootList = <<>>
    /\ arg = <<>>

\* resolve_path_segments(start_roots, segments, opts)
WalkerCall ==
    /\ pc = "walker"
    /\ result' = resolve_path_segments(matches, segments, opts)
    /\ pc' = "walked"
    /\ UNCHANGED <<windows, scanRev, cwd, cdpath, opts, query, matches, segments,
                   stdout, stderr, exitCode, rootList, arg>>

NextWalker == WalkerCall

SpecWalker == InitWalker /\ [][NextWalker]_vars

\* the fragments that are neither "." nor blank
NonTrivial(segs) == SelectSeq(segs, LAMBDA s : Trim(s) \notin { <<>>, <<".">> })

\* C21: the fragments "." and blank are identity steps: a fragment list with
\* any number of them at any position resolves to what the list without
\* them resolves to, and a list made of them alone returns the starting
\* candidates as they are
C21_TrivialFragments ==
    pc = "walked" =>
        /\ result = resolve_path_segments(matches, NonTrivial(segments), opts)
        /\ NonTrivial(segments) = <<>> => result = Found(matches)

\* "." before, a blank after the one real fragment
C21_Witness ==
    /\ pc = "walked"
    /\ segments = << <<".">>, n_t, <<" ">> >>
    /\ matches = <<cwd>>
    /\ cwd = AbsPath(<<n_a>>)
    /\ result = Found(<<AbsPath(<<n_a, n_t>>)>>)

\* the walker is at a generation whose fragment is ".."
AtParentFragment ==
    /\ pc = "walk"
    /\ matches # <<>>
    /\ Retain(segments) # <<>>
    /\ trim_to_elipses(Head(Retain(segments))) = <<".", ".">>

\* the parent of a candidate, the candidate itself when it has none
ParentOrSelf(path) == IF path.comps = <<>> THEN path ELSE pop(path)[2]

\* C22: a ".." fragment replaces each candidate with its parent directory,
\* and a candidate without a parent (a root) with itself: the next
\* generation has as many entries as the current one, in the same order
C22_ParentStep ==
    [][AtParentFragment =>
          /\ pc' = "walk"
          /\ Len(matches') = Len(matches)
          /\ \A k \in 1..Len(matches) : matches'[k] = ParentOrSelf(matches[k])]_vars

\* ".." was applied to the root, which was kept
C22_Witness ==
    /\ pc = "walk"
    /\ query = <<"/", ".", ".">>
    /\ segments = <<>>
    /\ matches = <<RootPath>>

\* ".." was applied to the four directories of /a: /a, four times
C22_CountWitness ==
    /\ pc = "walk"
    /\ query = <<"*", "/", ".", ".">>
    /\ cwd = AbsPath(<<n_a>>)
    /\ segments = <<>>
    /\ matches = [k \in 1..4 |-> AbsPath(<<n_a>>)]

\* evaluate_jump has returned what resolve_path_segments returned (it was
\* entered, with the candidates evaluate_jump starts it with)
WalkerReturned ==
    /\ pc \in {"resolved", "exited"}
    /\ result # NotReturned
    /\ matches # <<>>

\* C23: the walker returns only when no fragment or no candidate is left:
\* with no fragment left it returns the candidates unchanged, and once a
\* generation is empty the result is empty, so that a path is returned only
\* when every fragment, in order, has been consumed; the walker never goes
\* on with an empty generation
C23_Terminal ==
    /\ WalkerReturned =>
          \/ Retain(segments) = <<>> /\ result = matches
          \/ Retain(segments) # <<>> /\ result = <<>>
    /\ pc = "walk" => matches # <<>>

\* an empty generation with a fragment left: the result is empty
C23_Witness ==
    /\ WalkerReturned
    /\ query = <<"x", "/", ".", ".">>
    /\ Retain(segments) = << <<"x">>, <<".", ".">> >>
    /\ matches = <<cwd>>
    /\ result = <<>>

\* every fragment consumed: the last generation is the result
C23_DoneWitness ==
    /\ WalkerReturned
    /\ query = <<"a", "/", "t">>
    /\ segments = <<>>
    /\ result = <<AbsPath(<<n_a, n_t>>)>>
    /\ result = matches

-----------------------------------------------------------------------------
(* is_ellipsis and trim_to_elipses called alone                            *)

\* the longest fragment classified
MaxFragmentLen == 4

\* a dot, a space and a character that is neither
FragmentChars == { ".", " ", "h" }

FragmentStrings == UNION { [1..n -> FragmentChars] : n \in 0..MaxFragmentLen }

InitFragment ==
    /\ windows \in BOOLEAN
    /\ scanRev = FALSE
    /\ cwd = RootPath
    /\ cdpath = <<>>
    /\ opts = [mode |-> "Origin", exact |-> FALSE, list |-> FALSE,
               dir_match |-> "AsIs", mock_path |-> NoPath]
    /\ query \in FragmentStrings
    /\ pc = "fragment"
    /\ matches = <<>>
    /\ segments = <<>>
    /\ stdout = <<>>
    /\ stderr = <<>>
    /\ exitCode = -1
    /\ result = NotReturned
    /\ rootList = <<>>
    /\ arg = <<>>

\* is_ellipsis(query) and trim_to_elipses(query)
FragmentCall ==
    /\ pc = "fragment"
    /\ result' = [ellipsis |-> is_ellipsis(query), trimmed |-> trim_to_elipses(query)]
    /\ pc' = "trimmed"
    /\ UNCHANGED <<windows, scanRev, cwd, cdpath, opts, query, matches, segments,
                   stdout, stderr, exitCode, rootList, arg>>

NextFragment == FragmentCall

SpecFragment == InitFragment /\ [][NextFragment]_vars

\* a fragment without its spaces
NoSpaces(s) == SelectSeq(s, LAMBDA c : c # " ")

\* two dots or more and nothing else
DotsOnly(s) == Len(s) >= 2 /\ \A i \in 1..Len(s) : s[i] = "."

\* a character that is neither a dot nor a space occurs in the fragment
HasOther(s) == \E i \in 1..Len(s) : s[i] \notin {".", " "}

\* C24: a fragment is an ellipsis exactly when, its spaces discarded, it is
\* two dots or more and nothing else; a single dot, the empty string and any
\* fragment with a character that is neither a dot nor a space are not
\* ellipses, and trim_to_elipses returns them as they are
C24_EllipsisClass ==
    pc = "trimmed" =>
        /\ result.ellipsis <=> DotsOnly(NoSpaces(query))
        /\ (query = <<".">> \/ query = <<>> \/ HasOther(query)) =>
              ~result.ellipsis /\ result.trimmed = query

\* ". ." is an ellipsis
C24_Witness ==
    /\ pc = "trimmed"
    /\ query = <<".", " ", ".">>
    /\ result.ellipsis
    /\ result.trimmed = <<".", ".">>

\* "..h" is not, and is left as it is
C24_OtherWitness ==
    /\ pc = "trimmed"
    /\ query = <<".", ".", "h">>
    /\ ~result.ellipsis
    /\ result.trimmed = query

\* no directory occurs twice in a list of paths
NoDuplicates(paths) ==
    \A i, j \in 1..Len(paths) :
        i # j => CanonOrSelf(paths[i]) # CanonOrSelf(paths[j])

\* C25: the list evaluate_jump returns never holds the same directory twice:
\* a directory that several candidates of a generation lead to is in it once
C25_NoDuplicateResults ==
    (pc \in {"resolved", "exited"} /\ ~IsSpecial(query) /\ result # NotReturned)
        => NoDuplicates(result)

\* the walker is at a generation after the first whose fragment is a name
\* or a wildcard
AtLaterNameFragment ==
    /\ pc = "walk"
    /\ opts.mock_path # NoPath
    /\ matches # <<>>
    /\ Retain(segments) # <<>>
    /\ IsNameFragment(Head(Retain(segments)))

\* C26: a name or wildcard fragment descends exactly one level, in every
\* mode: each path of the generation it produces is a direct child of a
\* candidate of the generation it was searched in, never a candidate itself
C26_OneLevelDown ==
    [][(AtLaterNameFragment /\ pc' = "walk") =>
          \A k \in 1..Len(matches') :
              \E j \in 1..Len(matches) : ChildOf(matches'[k], matches[j])]_vars

\* Phase A returns at once at the root at position i
FastAt(i) ==
    /\ is_dir(rootList[i])
    /\ ~opts.exact
    /\ PhaseA(SearchEngineNew(query, opts.exact), query, rootList[i]) # NoPath

\* the search reaches the root at position i
Reaches(i) == \A j \in 1..(i - 1) : ~FastAt(j)

\* the directories of a list of paths
DirsOf(paths) == { CanonOrSelf(paths[k]) : k \in 1..Len(paths) }

\* what the same search returns without --list
Unlisted == search_cdpath(query, [opts EXCEPT !.list = FALSE])

\* C27: with --list search_cdpath drops no match it has collected: what the
\* phases match at any root the search reaches is in the list returned, and
\* so is what the same search returns without --list
C27_ListKeepsMatches ==
    (pc = "returned" /\ opts.list /\ result.kind = "ok") =>
        /\ \A i \in 1..Len(rootList) : Reaches(i) => DirsOf(YieldAt(i)) \subseteq ResultDirs
        /\ Unlisted.kind = "ok" => DirsOf(Unlisted.paths) \subseteq ResultDirs

\* C28: every path evaluate_jump returns names a directory that exists,
\* whatever the kind of the query; here for the queries that evaluate_jump
\* answers itself, the bare anchors
C28_ResultsExist ==
    (pc = "classified" /\ result.done) =>
        \A k \in 1..Len(result.results) : is_dir(result.results[k])

-----------------------------------------------------------------------------
(* Termination                                                             *)

\* the invocations whose termination is followed: read_dir in disk order,
\* exact = false
InitLive ==
    /\ Init
    /\ scanRev = FALSE
    /\ opts.exact = FALSE

\* the steps that return from resolve_path_segments and that end run
Finish == WalkReturn \/ ReportAmbiguity \/ ReportNoMatch \/ PrintResults

\* the invocation is never stuck before its exit: some step of Next can be
\* taken
NeverStuck ==
    /\ pc \in {"start", "walk", "resolved", "exited"}
    /\ (pc = "walk" /\ Retain(segments) # <<>> /\ matches # <<>>) =>
          NextGeneration.kind \in {"ok", "ambiguous"}

\* weak fairness of Next, with ENABLED <<Next>>_vars written as what it is
\* by NeverStuck, pc # "exited"
Progress == []<>(pc = "exited") \/ []<><<Next>>_vars

\* the invocation is one synchronous thread: a step that can be taken is
\* taken
SpecLive == InitLive /\ [][Next]_vars /\ WF_vars(Finish) /\ Progress

\* C29: every resolution terminates: the invocation reaches its exit, and
\* each generation of resolve_path_segments consumes exactly one fragment
\* that is neither "." nor blank, so that there are at most as many
\* generations as the query has fragments (the roots of a search and the
\* pops of an ellipsis are finite recursions inside one generation)
C29_Terminates ==
    /\ []NeverStuck
    /\ <>(pc = "exited")
    /\ [][(pc = "walk" /\ pc' = "walk") =>
             Len(Retain(segments')) = Len(Retain(segments)) - 1]_vars

\* two generations were run, and the invocation has exited
C29_Witness ==
    /\ pc = "exited"
    /\ query = <<"*", "/", ".", ".">>
    /\ segments = <<>>
    /\ Len(matches) > 1
    /\ exitCode \in {0, 1}

\* C30: the list one search_cdpath call returns, or reports as ambiguous,
\* never holds two paths with the same canonical form, through however many
\* phases and roots a directory is reached
C30_NoDuplicateMatches ==
    pc = "returned" => NoDuplicates(result.paths)

\* /a is the current directory and a CDPATH entry: its four directories are
\* reached at two roots and listed once, before the one of /t
C30_Witness ==
    /\ pc = "returned"
    /\ cwd = AbsPath(<<n_a>>)
    /\ cdpath = <<AbsPath(<<n_t>>), AbsPath(<<n_a>>), AbsPath(<<n_t>>)>>
    /\ opts.mock_path = NoPath
    /\ opts.mode = "Origin"
    /\ query = <<"*">>
    /\ Len(rootList) = 3
    /\ Len(result.paths) = 5

====
